---- MODULE Spec2Model ----
(***************************************************************************)
(* Home Assistant MCP proxy.                                               *)
(*                                                                         *)
(*   Part I  : HomeAssistantController (mcp_server.py): the device context *)
(*             cache and the batched control dispatcher.                   *)
(*   Part II : get_or_create_long_token (home_assistant_setup.py): the     *)
(*             session bootstrap.                                          *)
(*                                                                         *)
(* A coroutine runs without interruption between two awaits, so every      *)
(* action below is the code between two suspension points.                 *)
(***************************************************************************)
EXTENDS Integers, Sequences, FiniteSets, TLC

\* ------------------------------------------------------------------ bounds
\* Longest list of device ids handed to switch_control / light_set.
MaxIds == 2

\* ------------------------------------------------------- python constants
\* Python's None where the other values of the variable are strings.
None == "None"
\* dict.get(key) of a key the dict does not hold.
Absent == "<absent>"
\* brightness=None, the other values being 0..100.
NoBrightness == -1

CONTEXT_PREFIX == "Live Context: An overview of the areas and the devices in this smart home:"

\* The coroutines that may run tool invocations.
Tasks == {"t1", "t2"}

\* -------------------------------------------------------------- hashlib.md5
\* hashlib.md5(s.encode("utf-8")).hexdigest(): a digest is a value of its own
\* kind, equal for equal inputs and (MD5 taken as collision-free on the inputs
\* enumerated here) different for different ones.
MD5(s) == <<"md5", s>>

\* The value of _context_hash before the first refresh.
NoHash == <<"None", <<>>>>
\* An item that has no "id" key yet.
NoId == <<"None", "">>

\* ------------------------------------------------------ inventory text
\* A text is a sequence of lines; a line is a record.
\*   entry   : "- key: val" (dash) or "  key: val" (no dash)
\*   scalar  : "- val"
\*   flow    : "[]"
\*   comment : "# ..."
\*   blank   : ""
\*   prefix  : CONTEXT_PREFIX
\*   bad     : a line no YAML parser accepts ("- names: [")
Line(kind, dash, key, val) == [kind |-> kind, dash |-> dash, key |-> key, val |-> val]
Entry(dash, key, val) == Line("entry", dash, key, val)
ScalarLine == Line("scalar", TRUE, "", "lamp")
FlowEmptyLine == Line("flow", FALSE, "", "[]")
CommentLine == Line("comment", FALSE, "", "# living room")
BlankLine == Line("blank", FALSE, "", "")
PrefixLine == Line("prefix", FALSE, "", CONTEXT_PREFIX)
BadLine == Line("bad", TRUE, "names", "[")

\* Inventories the hub may report (after the prefix).
TextLampFan ==
    << Entry(TRUE, "names", "lamp"), Entry(FALSE, "areas", "hall"),
       Entry(TRUE, "names", "fan"), Entry(FALSE, "areas", "hall") >>
TextLampFanCommented ==
    << Entry(TRUE, "names", "lamp"), Entry(FALSE, "areas", "hall"), CommentLine,
       Entry(TRUE, "names", "fan"), Entry(FALSE, "areas", "hall") >>
TextTwoLamps ==
    << Entry(TRUE, "names", "lamp"), Entry(FALSE, "areas", "hall"),
       Entry(TRUE, "names", "lamp"), Entry(FALSE, "areas", "room") >>
TextPartial ==
    << Entry(TRUE, "names", "fan"), Entry(TRUE, "areas", "room") >>
TextEmptyList == << FlowEmptyLine >>
TextMapping == << Entry(FALSE, "names", "lamp") >>
TextScalars == << ScalarLine >>
TextBroken == << Entry(TRUE, "names", "lamp"), BadLine >>
TextNothing == << >>

InventoryTexts ==
    { TextLampFan, TextLampFanCommented, TextTwoLamps, TextPartial, TextEmptyList,
      TextMapping, TextScalars, TextBroken, TextNothing }

\* The result strings the hub may send: the text bare, behind the prefix, and
\* behind the prefix with surrounding blank lines.
HubResultStrings ==
    UNION { { t, <<PrefixLine>> \o t, <<BlankLine, PrefixLine, BlankLine>> \o t \o <<BlankLine>> }
            : t \in InventoryTexts }

\* str.replace(CONTEXT_PREFIX, ""): the prefix goes, its line stays (empty).
Replace(s) == [i \in DOMAIN s |-> IF s[i].kind = "prefix" THEN BlankLine ELSE s[i]]

\* str.strip(): leading and trailing whitespace goes, inner whitespace stays.
RECURSIVE LStrip(_)
LStrip(s) ==
    IF s = <<>> THEN s
    ELSE IF Head(s).kind = "blank" THEN LStrip(Tail(s)) ELSE s
RECURSIVE RStrip(_)
RStrip(s) ==
    IF s = <<>> THEN s
    ELSE IF s[Len(s)].kind = "blank" THEN RStrip(SubSeq(s, 1, Len(s) - 1)) ELSE s
Strip(s) == RStrip(LStrip(s))

\* ------------------------------------------------------- yaml.safe_load
\* A parsed item: a dict (isdict) with the keys it holds, or a scalar (NoItem).
Item(isdict, names, areas, id) == [isdict |-> isdict, names |-> names, areas |-> areas, id |-> id]
NoItem == Item(FALSE, Absent, Absent, NoId)

ContentLines(text) == SelectSeq(text, LAMBDA l : l.kind \notin {"comment", "blank"})

\* Folds the lines of a block sequence into its items; ok is FALSE when a
\* continuation line has no dict to continue.
RECURSIVE FoldItems(_, _)
FoldItems(ls, acc) ==
    IF ls = <<>> THEN [ok |-> TRUE, items |-> acc]
    ELSE LET l == Head(ls) IN
         IF l.kind = "scalar"
         THEN FoldItems(Tail(ls), Append(acc, NoItem))
         ELSE IF l.dash
         THEN FoldItems(Tail(ls),
                        Append(acc, IF l.key = "names" THEN Item(TRUE, l.val, Absent, NoId)
                                                       ELSE Item(TRUE, Absent, l.val, NoId)))
         ELSE IF acc = <<>> \/ ~acc[Len(acc)].isdict
         THEN [ok |-> FALSE, items |-> acc]
         ELSE LET last == acc[Len(acc)]
                  upd  == IF l.key = "names" THEN [last EXCEPT !.names = l.val]
                                             ELSE [last EXCEPT !.areas = l.val]
              IN FoldItems(Tail(ls), [acc EXCEPT ![Len(acc)] = upd])

\* yaml.safe_load(text): kind is "list" (items holds it), "other" (None, a
\* mapping, a scalar) or "error" (yaml.YAMLError).
yaml_safe_load(text) ==
    LET ls == ContentLines(text) IN
    IF \E i \in DOMAIN ls : ls[i].kind = "bad" THEN [kind |-> "error", items |-> <<>>]
    ELSE IF ls = <<>> THEN [kind |-> "other", items |-> <<>>]
    ELSE IF ls = <<FlowEmptyLine>> THEN [kind |-> "list", items |-> <<>>]
    ELSE IF \E i \in DOMAIN ls : ls[i].kind = "flow" THEN [kind |-> "error", items |-> <<>>]
    ELSE IF ls[1].kind = "entry" /\ ~ls[1].dash
    THEN IF \A i \in DOMAIN ls : ls[i].kind = "entry" /\ ~ls[i].dash
         THEN [kind |-> "other", items |-> <<>>]
         ELSE [kind |-> "error", items |-> <<>>]
    ELSE LET f == FoldItems(ls, <<>>) IN
         IF f.ok THEN [kind |-> "list", items |-> f.items]
                 ELSE [kind |-> "error", items |-> <<>>]

\* ================================================================ Part I
\* ------------------------------------------------- hub responses (inputs)
\* What client.call_tool may do: raise, answer without text content, answer
\* with text that is not JSON, or answer with the JSON {success, result}.
\* result is the inventory string for GetLiveContext.
Response(raises, content, json_ok, success, result) ==
    [raises |-> raises, content |-> content, json_ok |-> json_ok,
     success |-> success, result |-> result]

ContextResponses ==
    { Response(TRUE, "none", FALSE, FALSE, <<>>),
      Response(FALSE, "none", FALSE, FALSE, <<>>),
      Response(FALSE, "text", FALSE, FALSE, <<>>),
      Response(FALSE, "text", TRUE, FALSE, <<>>) }
    \cup { Response(FALSE, "text", TRUE, TRUE, r) : r \in HubResultStrings }

\* For the control tools result is the hub's message.
CommandResponses ==
    { Response(TRUE, "none", FALSE, FALSE, ""),
      Response(FALSE, "none", FALSE, FALSE, ""),
      Response(FALSE, "text", FALSE, FALSE, ""),
      Response(FALSE, "text", TRUE, FALSE, "failed"),
      Response(FALSE, "text", TRUE, TRUE, "done") }

\* ------------------------------------------------------ _get_raw_context
_get_raw_context(resp) ==
    IF resp.raises
    THEN [raised |-> TRUE, error |-> "call_tool raised", raw |-> <<>>]
    ELSE IF resp.content # "text"
    THEN [raised |-> TRUE,
          error |-> "Received an empty or invalid response from GetLiveContext.",
          raw |-> <<>>]
    ELSE IF ~resp.json_ok
    THEN [raised |-> TRUE, error |-> "JSONDecodeError", raw |-> <<>>]
    ELSE IF ~resp.success
    THEN [raised |-> TRUE, error |-> "API call to GetLiveContext failed", raw |-> <<>>]
    ELSE [raised |-> FALSE, error |-> Absent, raw |-> Strip(Replace(resp.result))]

\* ------------------------------------------------------- _process_context
\* item.get("names", ""), then item["id"] = md5(names).
NamesOrEmpty(item) == IF item.names = Absent THEN "" ELSE item.names

\* Mutant of _process_context: the id is taken from the areas, not the names.
ProcessByAreas(context_list) ==
    [i \in DOMAIN context_list |-> [context_list[i] EXCEPT !.id = MD5(context_list[i].areas)]]

_process_context(context_list) ==
    [i \in DOMAIN context_list |->
        [context_list[i] EXCEPT !.id = MD5(NamesOrEmpty(context_list[i]))]]

\* item.get on an item that is no dict raises AttributeError.
ProcessRaises(context_list) == \E i \in DOMAIN context_list : ~context_list[i].isdict

\* -------------------------------------------------- get_processed_context
\* self._context: None, or a list object (obj is its identity) and its items.
Context(obj, items) == [isNone |-> FALSE, obj |-> obj, items |-> items]
NoneContext == [isNone |-> TRUE, obj |-> 0, items |-> <<>>]

\* Mutant of RefreshNeeded: the hash comparison is lost and every call refreshes.
RefreshAlways(force_refresh, ctx, hash, new_hash) == TRUE

\* The condition of line 94.
RefreshNeeded(force_refresh, ctx, hash, new_hash) ==
    force_refresh \/ ctx.isNone \/ hash # new_hash

\* Mutant of Refresh: the new hash is stored before the text is validated.
RefreshHashFirst(ctx, hash, raw, new_hash, fresh) ==
    LET context_list == yaml_safe_load(raw) IN
    IF context_list.kind # "list" \/ ProcessRaises(context_list.items)
    THEN [raised |-> TRUE, error |-> "Error parsing YAML from context",
          context |-> ctx, context_hash |-> new_hash]
    ELSE [raised |-> FALSE, error |-> Absent,
          context |-> Context(fresh, _process_context(context_list.items)),
          context_hash |-> new_hash]

\* Mutant of Refresh: the parsed list becomes the cache before its ids are
\* assigned, so a list _process_context gives up on stays in the cache.
RefreshStoresListFirst(ctx, hash, raw, new_hash, fresh) ==
    LET context_list == yaml_safe_load(raw) IN
    IF context_list.kind # "list"
    THEN [raised |-> TRUE, error |-> "Error parsing YAML from context",
          context |-> ctx, context_hash |-> hash]
    ELSE IF ProcessRaises(context_list.items)
    THEN [raised |-> TRUE, error |-> "AttributeError",
          context |-> Context(fresh, context_list.items), context_hash |-> hash]
    ELSE [raised |-> FALSE, error |-> Absent,
          context |-> Context(fresh, _process_context(context_list.items)),
          context_hash |-> new_hash]

\* Lines 95-107: parse, check, assign ids, then replace the cache.
Refresh(ctx, hash, raw, new_hash, fresh) ==
    LET context_list == yaml_safe_load(raw) IN
    IF context_list.kind = "error"
    THEN [raised |-> TRUE, error |-> "Error parsing YAML from context",
          context |-> ctx, context_hash |-> hash]
    ELSE IF context_list.kind # "list"
    THEN [raised |-> TRUE, error |-> "Parsed context from Home Assistant is not a list.",
          context |-> ctx, context_hash |-> hash]
    ELSE IF ProcessRaises(context_list.items)
    THEN [raised |-> TRUE, error |-> "AttributeError",
          context |-> ctx, context_hash |-> hash]
    ELSE [raised |-> FALSE, error |-> Absent,
          context |-> Context(fresh, _process_context(context_list.items)),
          context_hash |-> new_hash]

\* Lines 91-114 after the await: the new cache and what the call returns.
get_processed_context(force_refresh, ctx, hash, resp, fresh) ==
    LET r == _get_raw_context(resp) IN
    IF r.raised
    THEN [raised |-> TRUE, error |-> r.error, context |-> ctx, context_hash |-> hash]
    ELSE LET new_hash == MD5(r.raw)
             c == IF RefreshNeeded(force_refresh, ctx, hash, new_hash)
                  THEN Refresh(ctx, hash, r.raw, new_hash, fresh)
                  ELSE [raised |-> FALSE, error |-> Absent,
                        context |-> ctx, context_hash |-> hash]
         IN IF ~c.raised /\ c.context.isNone
            THEN [raised |-> TRUE, error |-> "Failed to load context.",
                  context |-> c.context, context_hash |-> c.context_hash]
            ELSE c

\* ------------------------------------------------ _hass_turn, _hass_light_set
\* The arguments mapping of a hub request; brightness is Absent when the key
\* is not in the mapping.
Request(tool, name, area, brightness) ==
    [tool |-> tool, name |-> name, area |-> area, brightness |-> brightness]

\* Lines 118-119.
hass_turn_request(names, areas, on) ==
    Request(IF on THEN "HassTurnOn" ELSE "HassTurnOff", names, areas, Absent)

\* Mutant of hass_light_set_request: "if brightness:", which drops a 0.
LightSetRequestIfTruthy(names, area, brightness) ==
    Request("HassLightSet", names, area,
            IF brightness \notin {NoBrightness, 0} THEN ToString(brightness) ELSE Absent)

\* Lines 172-174: str(brightness) when a brightness was given.
hass_light_set_request(names, area, brightness) ==
    Request("HassLightSet", names, area,
            IF brightness # NoBrightness THEN ToString(brightness) ELSE Absent)

\* The JSON a control tool answered with; present is FALSE where an outcome
\* holds no result.
Json(success, result) == [present |-> TRUE, success |-> success, result |-> result]
NoJson == [present |-> FALSE, success |-> FALSE, result |-> Absent]

\* Lines 122-127 and 178-183: what the helper does with the hub's answer.
hass_result(resp) ==
    IF resp.raises
    THEN [raised |-> TRUE, error |-> "call_tool raised", value |-> NoJson]
    ELSE IF resp.content # "text"
    THEN [raised |-> TRUE, error |-> "Response content is empty or invalid", value |-> NoJson]
    ELSE IF ~resp.json_ok
    THEN [raised |-> TRUE, error |-> "JSONDecodeError", value |-> NoJson]
    ELSE [raised |-> FALSE, error |-> Absent, value |-> Json(resp.success, resp.result)]

\* ------------------------------ control_switch, control_light_brightness
\* One entry of results. device_id is NoId and result NoJson when the dict has
\* no such key; error is the message and the id formatted into it.
Outcome(success, device_id, result, error, error_id) ==
    [success |-> success, device_id |-> device_id, result |-> result,
     error |-> error, error_id |-> error_id]

\* Lines 149 and 205.
NotFoundOutcome(device_id) ==
    Outcome(FALSE, NoId, NoJson, "Device with id '%s' not found.", device_id)

\* Lines 157 and 213.
MissingOutcome(device_id) ==
    Outcome(FALSE, NoId, NoJson, "Device '%s' is missing 'names' or 'areas' information.",
            device_id)

\* Mutant of TryOutcome: the except branch forgets the device_id.
TryOutcomeNoId(device_id, r) ==
    IF r.raised
    THEN Outcome(FALSE, NoId, NoJson, r.error, NoId)
    ELSE Outcome(TRUE, device_id, r.value, Absent, NoId)

\* Lines 160-165 and 216-221: the try/except around the helper.
TryOutcome(device_id, r) ==
    IF r.raised
    THEN Outcome(FALSE, device_id, NoJson, r.error, NoId)
    ELSE Outcome(TRUE, device_id, r.value, Absent, NoId)

\* Mutant of FindDevice: falls back to the first item when nothing matches.
FindDeviceOrFirst(items, device_id) ==
    IF \E i \in DOMAIN items : items[i].id = device_id
    THEN CHOOSE i \in DOMAIN items :
            /\ items[i].id = device_id
            /\ \A j \in DOMAIN items : items[j].id = device_id => i <= j
    ELSE IF items = <<>> THEN 0 ELSE 1

\* Lines 145 and 201: next((item for item in context if item.get("id") == device_id), None)
\* as the index of the first match, 0 for None.
FindDevice(items, device_id) ==
    IF \E i \in DOMAIN items : items[i].id = device_id
    THEN CHOOSE i \in DOMAIN items :
            /\ items[i].id = device_id
            /\ \A j \in DOMAIN items : items[j].id = device_id => i <= j
    ELSE 0

\* Lines 155 and 211.
MissingAttributes(item) == item.names = Absent \/ item.areas = Absent

\* Mutant of Resolve: an id that is not found is skipped without an outcome.
ResolveSkipsNotFound(items, device_id, res) ==
    LET k == FindDevice(items, device_id) IN
    IF k = 0
    THEN [call |-> FALSE, results |-> res, item |-> NoItem]
    ELSE IF MissingAttributes(items[k])
    THEN [call |-> FALSE, results |-> Append(res, MissingOutcome(device_id)), item |-> NoItem]
    ELSE [call |-> TRUE, results |-> res, item |-> items[k]]

\* Lines 145-158 (201-214) for one id: the outcome appended without a hub
\* call, or call = TRUE when the loop goes on to the hub call.
Resolve(items, device_id, res) ==
    LET k == FindDevice(items, device_id) IN
    IF k = 0
    THEN [call |-> FALSE, results |-> Append(res, NotFoundOutcome(device_id)), item |-> NoItem]
    ELSE IF MissingAttributes(items[k])
    THEN [call |-> FALSE, results |-> Append(res, MissingOutcome(device_id)), item |-> NoItem]
    ELSE [call |-> TRUE, results |-> res, item |-> items[k]]

\* The for loop from its i-th id up to its next await: call = TRUE when it
\* stops at the hub call for device_ids[i], FALSE when the loop has ended.
RECURSIVE RunLoop(_, _, _, _)
RunLoop(items, device_ids, i, res) ==
    IF i > Len(device_ids)
    THEN [call |-> FALSE, i |-> i, results |-> res, item |-> NoItem]
    ELSE LET r == Resolve(items, device_ids[i], res) IN
         IF r.call
         THEN [call |-> TRUE, i |-> i, results |-> res, item |-> r.item]
         ELSE RunLoop(items, device_ids, i + 1, r.results)

\* ------------------------------------------------------------------ state
VARIABLES
    context,        \* controller._context
    context_hash,   \* controller._context_hash
    pc,             \* per task: idle, await_context, await_command, returned, raised
    op,             \* per task: the tool invoked
    device_ids,     \* per task: the id argument
    on,             \* per task: switch_control's on
    brightness,     \* per task: light_set's brightness
    local_context,  \* per task: what get_processed_context returned
    results,        \* per task: the results list
    idx,            \* per task: index of the id whose hub call is awaited
    requests,       \* per task: the hub requests issued, each with its index
    responses,      \* per task: the hub's answers to requests, in order
    error,          \* per task: the message of the fault the tool raised
    get_call        \* per task: its get_processed_context call, as observed

ctlVars == << context, context_hash, pc, op, device_ids, on, brightness,
              local_context, results, idx, requests, responses, error, get_call >>

\* What is observed of a get_processed_context call: its argument, the text
\* it fetched (fetched is FALSE when _get_raw_context raised), whether it
\* raised, the cache where line 92 found it and where the call left it,
\* whether another task was suspended in its own fetch (line 91) meanwhile,
\* and the batches suspended in a hub command then, each as <<task, index of
\* the id it waits for>>.
GetCall(force_refresh, fetched, raw, raised, ctx0, hash0, ctx1, hash1, concurrent, batches) ==
    [done |-> TRUE, force_refresh |-> force_refresh, fetched |-> fetched, raw |-> raw,
     raised |-> raised, before |-> ctx0, before_hash |-> hash0,
     after |-> ctx1, after_hash |-> hash1, concurrent |-> concurrent,
     batches |-> batches]

\* ----------------------------------------------------------------- inputs
\* The names whose ids the client sends; no inventory holds "ghost".
KnownNames == {"lamp", "fan", "ghost"}
DeviceIds == { MD5(n) : n \in KnownNames }
DeviceIdLists == UNION { [1..n -> DeviceIds] : n \in 0..MaxIds }
BrightnessValues == {NoBrightness, 0, 50}

\* A list object no reference holds: the identity of a newly parsed list.
FreshObj ==
    LET used == {context.obj} \cup { local_context[t].obj : t \in Tasks } IN
    CHOOSE n \in 1..(Cardinality(Tasks) + 2) :
        /\ n \notin used
        /\ \A m \in 1..(n - 1) : m \in used

NoGetCall ==
    [done |-> FALSE, force_refresh |-> FALSE, fetched |-> FALSE, raw |-> <<>>,
     raised |-> FALSE, before |-> NoneContext, before_hash |-> NoHash,
     after |-> NoneContext, after_hash |-> NoHash, concurrent |-> FALSE,
     batches |-> {}]

CtlInit ==
    /\ context = NoneContext
    /\ context_hash = NoHash
    /\ pc = [t \in Tasks |-> "idle"]
    /\ op = [t \in Tasks |-> None]
    /\ device_ids = [t \in Tasks |-> <<>>]
    /\ on = [t \in Tasks |-> FALSE]
    /\ brightness = [t \in Tasks |-> NoBrightness]
    /\ local_context = [t \in Tasks |-> NoneContext]
    /\ results = [t \in Tasks |-> <<>>]
    /\ idx = [t \in Tasks |-> 0]
    /\ requests = [t \in Tasks |-> <<>>]
    /\ responses = [t \in Tasks |-> <<>>]
    /\ error = [t \in Tasks |-> Absent]
    /\ get_call = [t \in Tasks |-> NoGetCall]

\* The Client a hub call of task t goes through: self.client, made once in
\* __init__ (line 29) and entered by every helper ("async with self.client").
ClientOf(t) == "controller.client"

\* Task t is inside "async with self.client", suspended in call_tool
\* (lines 53-55, 120-122, 176-178).
InHubCall(t) == pc[t] \in {"await_context", "await_command"}

\* ---------------------------------------------------------------- actions
\* A tool is invoked: the coroutine runs up to the await of line 55.
Invoke(t, tool, ids, o, b) ==
    /\ pc[t] = "idle"
    /\ pc' = [pc EXCEPT ![t] = "await_context"]
    /\ op' = [op EXCEPT ![t] = tool]
    /\ device_ids' = [device_ids EXCEPT ![t] = ids]
    /\ on' = [on EXCEPT ![t] = o]
    /\ brightness' = [brightness EXCEPT ![t] = b]
    /\ UNCHANGED << context, context_hash, local_context, results, idx, requests,
                    responses, error, get_call >>

\* The tool function hands its result (lines 251, 269, 287) or its ToolError
\* (lines 254, 272, 290) to the server: the invocation and its locals end.
Deliver(t) ==
    /\ pc[t] \in {"returned", "raised"}
    /\ pc' = [pc EXCEPT ![t] = "idle"]
    /\ op' = [op EXCEPT ![t] = None]
    /\ device_ids' = [device_ids EXCEPT ![t] = <<>>]
    /\ on' = [on EXCEPT ![t] = FALSE]
    /\ brightness' = [brightness EXCEPT ![t] = NoBrightness]
    /\ local_context' = [local_context EXCEPT ![t] = NoneContext]
    /\ results' = [results EXCEPT ![t] = <<>>]
    /\ idx' = [idx EXCEPT ![t] = 0]
    /\ requests' = [requests EXCEPT ![t] = <<>>]
    /\ responses' = [responses EXCEPT ![t] = <<>>]
    /\ error' = [error EXCEPT ![t] = Absent]
    /\ get_call' = [get_call EXCEPT ![t] = NoGetCall]
    /\ UNCHANGED << context, context_hash >>

\* Lines 241-254.
get_device_info(t) == Invoke(t, "get_device_info", <<>>, FALSE, NoBrightness)

\* Lines 256-272.
switch_control(t, ids, o) == Invoke(t, "switch_control", ids, o, NoBrightness)

\* Lines 274-290.
light_set(t, ids, b) == Invoke(t, "light_set", ids, FALSE, b)

\* Mutant of BatchList: the loop reads self._context anew after each await.
BatchListIsCache(t) == context

\* Lines 141 and 197: the local name "context" of the batch, bound once to
\* what get_processed_context returned.
BatchList(t) == local_context[t]

\* The request of the hub call the loop stopped at.
RequestFor(t, item) ==
    IF op[t] = "switch_control"
    THEN hass_turn_request(item.names, item.areas, on[t])
    ELSE hass_light_set_request(item.names, item.areas, brightness[t])

\* The loop of task t runs on from its i-th id over items: to the next hub
\* call, or to the return of line 168 (224).
Continue(t, items, i, res) ==
    LET r == RunLoop(items, device_ids[t], i, res) IN
    /\ results' = [results EXCEPT ![t] = r.results]
    /\ idx' = [idx EXCEPT ![t] = IF r.call THEN r.i ELSE 0]
    /\ pc' = [pc EXCEPT ![t] = IF r.call THEN "await_command" ELSE "returned"]
    /\ requests' = [requests EXCEPT ![t] =
            IF r.call
            THEN Append(@, [index |-> r.i, request |-> RequestFor(t, r.item)])
            ELSE @]

\* GetLiveContext answers: get_processed_context runs to its end, and the
\* caller runs on to its next await.
ContextResponse(t, resp) ==
    /\ pc[t] = "await_context"
    /\ LET force_refresh == op[t] = "get_device_info"
           g == get_processed_context(force_refresh, context, context_hash, resp, FreshObj)
           r == _get_raw_context(resp)
       IN
       /\ context' = g.context
       /\ context_hash' = g.context_hash
       /\ get_call' = [get_call EXCEPT ![t] =
                GetCall(force_refresh, ~r.raised, r.raw, g.raised,
                        context, context_hash, g.context, g.context_hash,
                        \E u \in Tasks \ {t} : pc[u] = "await_context",
                        { <<u, idx[u]>> : u \in { v \in Tasks \ {t} : pc[v] = "await_command" } })]
       /\ IF g.raised
          THEN /\ pc' = [pc EXCEPT ![t] = "raised"]
               /\ error' = [error EXCEPT ![t] = g.error]
               /\ UNCHANGED << local_context, results, idx, requests >>
          ELSE /\ local_context' = [local_context EXCEPT ![t] = g.context]
               /\ UNCHANGED error
               /\ IF op[t] = "get_device_info"
                  THEN /\ pc' = [pc EXCEPT ![t] = "returned"]
                       /\ UNCHANGED << results, idx, requests >>
                  ELSE Continue(t, g.context.items, 1, <<>>)
    /\ UNCHANGED << op, device_ids, on, brightness, responses >>

\* The control tool answers the awaited hub call: its outcome is appended and
\* the loop runs on.
CommandResponse(t, resp) ==
    /\ pc[t] = "await_command"
    /\ Continue(t, BatchList(t).items, idx[t] + 1,
                Append(results[t], TryOutcome(device_ids[t][idx[t]], hass_result(resp))))
    /\ responses' = [responses EXCEPT ![t] = Append(@, resp)]
    /\ UNCHANGED << context, context_hash, op, device_ids, on, brightness,
                    local_context, error, get_call >>

\* =============================================================== Part II
\* ------------------------------------------------------------------ bounds
\* Refresh-token ids the hub hands out before the model stops creating tokens.
MaxTokenId == 8

\* ------------------------------------------------------------ hub records
\* No token.txt in the cache directory; no token held.
NoToken == 0

LONG_LIVED == "long_lived_access_token"
\* The client_name of line 146 and line 173.
MCP_NAME == "mcp"

\* A refresh-token record of the hub; the bearer value of a token is its id.
RefreshToken(id, type, client_name) == [id |-> id, type |-> type, client_name |-> client_name]

\* Records the hub may hold before the first run: long-lived "mcp" tokens of
\* two runs that used other cache directories, a long-lived token of another
\* client, and a login token whose client_name happens to be "mcp".
EarlierTokens ==
    { RefreshToken(1, LONG_LIVED, MCP_NAME),
      RefreshToken(2, LONG_LIVED, "other"),
      RefreshToken(3, "normal", MCP_NAME),
      RefreshToken(4, LONG_LIVED, MCP_NAME) }

\* ------------------------------------------------------------------ state
VARIABLES
    token_file,       \* the line in <cache dir>/token.txt, NoToken when no file
    hub_tokens,       \* the hub's refresh-token records
    hub_integration,  \* the hub has a config entry of domain mcp_server
    next_token_id,    \* the id of the next token the hub creates
    bpc,              \* where get_or_create_long_token is
    sess,             \* which of its two "async with" blocks it is in (0: none)
    session_open,     \* a HAWebSocketClient is connected
    token_info,       \* token_info["access_token"]
    mcp_token,        \* the local mcp_token
    pending,          \* ids the loop of _delete_existing_mcp_tokens has yet to delete
    have_mcp_server,  \* the nonlocal flag of _check_mcp_server_integration
    check_result,     \* what the latest _check_mcp_server_integration returned
    sub_pending,      \* subscribed, and the hub has not delivered the entries yet
    calls,            \* how often this run made each call
    start             \* token.txt, the hub's state and first check, for this run

bootVars == << token_file, hub_tokens, hub_integration, next_token_id, bpc, sess,
               session_open, token_info, mcp_token, pending, have_mcp_server,
               check_result, sub_pending, calls, start >>

NoCalls ==
    [auth |-> 0, open |-> 0, close |-> 0, enumerate |-> 0, delete |-> 0,
     create |-> 0, subscribe |-> 0, install |-> 0, auth_error |-> 0]

Count(what) == [calls EXCEPT ![what] = @ + 1]

\* What a run found when it began, and what its first integration check said
\* ("none" until it has returned).
StartOf(file, tokens, integration) ==
    [token_file |-> file, hub_tokens |-> tokens, hub_integration |-> integration,
     first_check |-> "none"]

BootIdle ==
    /\ token_file = NoToken
    /\ next_token_id = 5
    /\ bpc = "idle"
    /\ sess = 0
    /\ session_open = FALSE
    /\ token_info = NoToken
    /\ mcp_token = NoToken
    /\ pending = <<>>
    /\ have_mcp_server = FALSE
    /\ check_result = FALSE
    /\ sub_pending = FALSE
    /\ calls = NoCalls
    /\ start = StartOf(NoToken, {}, FALSE)

\* A first run on a machine without cache; the hub in any earlier state.
BootInit ==
    /\ BootIdle
    /\ hub_tokens \in SUBSET EarlierTokens
    /\ hub_integration \in BOOLEAN

\* ------------------------------------------------------------ pure parts
\* os.path.exists(token_file), lines 94 and 136.
FileExists(file) == file # NoToken

\* The hub accepts the bearer: it belongs to a refresh token the hub holds.
ValidBearer(bearer, tokens) == \E r \in tokens : r.id = bearer

\* Ascending sequence of a finite set of numbers.
RECURSIVE SortedSeq(_)
SortedSeq(S) ==
    IF S = {} THEN <<>>
    ELSE LET m == CHOOSE x \in S : \A y \in S : x <= y
         IN <<m>> \o SortedSeq(S \ {m})

\* Mutant of TokensToDelete: the type of a record is not looked at.
TokensToDeleteByName(refresh_tokens) ==
    SortedSeq({ r.id : r \in { x \in refresh_tokens : x.client_name = MCP_NAME } })

\* Lines 166-175: the ids _delete_existing_mcp_tokens deletes, in list order.
TokensToDelete(refresh_tokens) ==
    SortedSeq({ r.id : r \in { x \in refresh_tokens :
                                  x.type = LONG_LIVED /\ x.client_name = MCP_NAME } })

\* Lines 211-220: the callback, for the entries the hub delivers.
on_config_changed(flag, has_mcp_entry) == flag \/ has_mcp_entry

\* Lines 63-67: the except clause of the first block.
AfterAuthError(file) == NoToken

\* Mutant of ScopedCached: the cached scoped token is never recognised.
ScopedNeverCached(file) == FALSE

\* os.path.exists(token_file) of line 136: the scoped token counts as cached.
ScopedCached(file) == file # NoToken

\* Mutant of TokenFileAfterCreate: token.txt is written whatever the call did.
TokenFileWrittenAnyway(ok, file, token) == token

\* Lines 146-150: token.txt after create_long_lived_token; the write comes
\* after the await, so a call that raises leaves the file as it was.
TokenFileAfterCreate(ok, file, token) == IF ok THEN token ELSE file

\* -------------------------------------------------------------- actions
\* The locals of a run that begins.
BeginRun ==
    /\ sess' = 1
    /\ start' = StartOf(token_file, hub_tokens, hub_integration)
    /\ UNCHANGED << session_open, mcp_token, pending, have_mcp_server, check_result,
                    sub_pending >>

\* Lines 36-48 with token.txt present: _get_access_token reads it.
StartFromFile ==
    /\ bpc = "idle"
    /\ FileExists(token_file)
    /\ BeginRun
    /\ token_info' = token_file
    /\ calls' = NoCalls
    /\ bpc' = "open"
    /\ UNCHANGED << token_file, hub_tokens, hub_integration, next_token_id >>

\* Lines 36-48 without token.txt: HomeAssistantAuth.get_token() logs in, and
\* the hub files a refresh token for the login, or refuses.
StartWithLogin(accepted) ==
    /\ bpc = "idle"
    /\ ~FileExists(token_file)
    /\ next_token_id + 1 <= MaxTokenId
    /\ BeginRun
    /\ calls' = [NoCalls EXCEPT !.auth = 1]
    /\ IF accepted
       THEN /\ hub_tokens' = hub_tokens \cup {RefreshToken(next_token_id, "normal", "")}
            /\ next_token_id' = next_token_id + 1
            /\ token_info' = next_token_id
            /\ bpc' = "open"
       ELSE /\ token_info' = NoToken
            /\ bpc' = "raised"
            /\ UNCHANGED << hub_tokens, next_token_id >>
    /\ UNCHANGED << token_file, hub_integration >>

\* _get_or_create_mcp_token up to its first await (lines 136-142), entered
\* with the session open: the cached token, or the request for the hub's list.
EnterTokenStep ==
    IF ScopedCached(token_file)
    THEN /\ mcp_token' = token_file
         /\ bpc' = "subscribe"
    ELSE /\ mcp_token' = NoToken
         /\ bpc' = "enumerate"

\* Lines 52-56 and 70-74: the client connects and authenticates. A bearer the
\* hub does not know ends in HAAuthError, which the first block alone catches
\* (lines 63-67); the connection may fail for other reasons.
OpenSession(connected) ==
    /\ bpc = "open"
    /\ IF ~connected
       THEN /\ bpc' = "raised"
            /\ UNCHANGED << token_file, session_open, mcp_token, calls >>
       ELSE IF ~ValidBearer(token_info, hub_tokens)
       THEN /\ bpc' = "raised"
            /\ token_file' = IF sess = 1 THEN AfterAuthError(token_file) ELSE token_file
            /\ calls' = Count("auth_error")
            /\ UNCHANGED << session_open, mcp_token >>
       ELSE /\ session_open' = TRUE
            /\ calls' = Count("open")
            /\ EnterTokenStep
            /\ UNCHANGED token_file
    /\ UNCHANGED << hub_tokens, hub_integration, next_token_id, sess, token_info,
                    pending, have_mcp_server, check_result, sub_pending, start >>

\* An await inside a block raised something that is no HAAuthError: the block
\* closes the session and the fault leaves get_or_create_long_token.
Abort ==
    /\ bpc' = "raised"
    /\ session_open' = FALSE
    /\ sub_pending' = FALSE

\* Line 163: get_refresh_tokens answers, and the loop runs to its first await.
Enumerate(ok) ==
    /\ bpc = "enumerate"
    /\ calls' = [Count("enumerate") EXCEPT !.close = IF ok THEN @ ELSE @ + 1]
    /\ IF ok
       THEN /\ pending' = TokensToDelete(hub_tokens)
            /\ bpc' = IF TokensToDelete(hub_tokens) = <<>> THEN "create" ELSE "delete"
            /\ UNCHANGED << session_open, sub_pending >>
       ELSE Abort /\ UNCHANGED pending
    /\ UNCHANGED << token_file, hub_tokens, hub_integration, next_token_id, sess,
                    token_info, mcp_token, have_mcp_server, check_result, start >>

\* Line 175: delete_refresh_token answers, and the loop runs on.
DeleteToken(ok) ==
    /\ bpc = "delete"
    /\ calls' = [Count("delete") EXCEPT !.close = IF ok THEN @ ELSE @ + 1]
    /\ IF ok
       THEN /\ hub_tokens' = { r \in hub_tokens : r.id # Head(pending) }
            /\ pending' = Tail(pending)
            /\ bpc' = IF Tail(pending) = <<>> THEN "create" ELSE "delete"
            /\ UNCHANGED << session_open, sub_pending >>
       ELSE Abort /\ UNCHANGED << hub_tokens, pending >>
    /\ UNCHANGED << token_file, hub_integration, next_token_id, sess, token_info,
                    mcp_token, have_mcp_server, check_result, start >>

\* Lines 146-152: create_long_lived_token answers and the token is written
\* to token.txt.
CreateToken(ok) ==
    /\ bpc = "create"
    /\ calls' = [Count("create") EXCEPT !.close = IF ok THEN @ ELSE @ + 1]
    /\ token_file' = TokenFileAfterCreate(ok, token_file, next_token_id)
    /\ IF ok
       THEN /\ hub_tokens' = hub_tokens \cup {RefreshToken(next_token_id, LONG_LIVED, MCP_NAME)}
            /\ next_token_id' = next_token_id + 1
            /\ mcp_token' = next_token_id
            /\ bpc' = "subscribe"
            /\ UNCHANGED << session_open, sub_pending >>
       ELSE Abort /\ UNCHANGED << hub_tokens, next_token_id, mcp_token >>
    /\ UNCHANGED << hub_integration, sess, token_info, pending, have_mcp_server,
                    check_result, start >>

\* Lines 187-196 and 209-225: subscribe_config_entries returns. The hub's
\* entries have reached the callback by then (timely) or have not; the flag
\* as it is then is returned, and without it setup_integration() is called
\* at once: it installs the integration, reports a failure, or raises.
Subscribe(timely, setup) ==
    /\ bpc = "subscribe"
    /\ LET flag == IF timely THEN on_config_changed(FALSE, hub_integration) ELSE FALSE IN
       /\ have_mcp_server' = flag
       /\ check_result' = flag
       /\ start' = IF start.first_check = "none"
                   THEN [start EXCEPT !.first_check = IF flag THEN "present" ELSE "absent"]
                   ELSE start
       /\ IF flag
          THEN /\ setup = "none"
               /\ calls' = Count("subscribe")
               /\ bpc' = "close"
               /\ sub_pending' = ~timely
               /\ UNCHANGED << hub_integration, session_open >>
          ELSE /\ setup \in {"installed", "failed", "raised"}
               /\ hub_integration' = (hub_integration \/ setup = "installed")
               /\ IF setup = "raised"
                  THEN /\ Abort
                       /\ calls' = [calls EXCEPT !.subscribe = @ + 1, !.install = @ + 1,
                                                 !.close = @ + 1]
                  ELSE /\ bpc' = "close"
                       /\ sub_pending' = ~timely
                       /\ calls' = [calls EXCEPT !.subscribe = @ + 1, !.install = @ + 1]
                       /\ UNCHANGED session_open
    /\ UNCHANGED << token_file, hub_tokens, next_token_id, sess, token_info, mcp_token,
                    pending >>

\* Line 223: subscribe_config_entries raises.
SubscribeFails ==
    /\ bpc = "subscribe"
    /\ Abort
    /\ calls' = [calls EXCEPT !.subscribe = @ + 1, !.close = @ + 1]
    /\ UNCHANGED << token_file, hub_tokens, hub_integration, next_token_id, sess,
                    token_info, mcp_token, pending, have_mcp_server, check_result, start >>

\* The hub delivers the entries after subscribe_config_entries has returned,
\* while the session is open: the callback sets the flag nothing reads any more.
DeliverEntries ==
    /\ session_open
    /\ sub_pending
    /\ sub_pending' = FALSE
    /\ have_mcp_server' = on_config_changed(have_mcp_server, hub_integration)
    /\ UNCHANGED << token_file, hub_tokens, hub_integration, next_token_id, bpc, sess,
                    session_open, token_info, mcp_token, pending, check_result, calls,
                    start >>

\* The end of an "async with" block: the session closes. After the first
\* block comes the second (line 70); the second returns mcp_token (line 81).
CloseSession ==
    /\ bpc = "close"
    /\ session_open' = FALSE
    /\ sub_pending' = FALSE
    /\ calls' = Count("close")
    /\ IF sess = 1
       THEN bpc' = "open" /\ sess' = 2
       ELSE bpc' = "returned" /\ UNCHANGED sess
    /\ UNCHANGED << token_file, hub_tokens, hub_integration, next_token_id, token_info,
                    mcp_token, pending, have_mcp_server, check_result, start >>

\* get_or_create_long_token_sync has returned or raised (line 228) and the
\* process goes on or ends: nothing of the run is left but token.txt.
RunEnds ==
    /\ bpc \in {"returned", "raised"}
    /\ bpc' = "idle"
    /\ sess' = 0
    /\ session_open' = FALSE
    /\ token_info' = NoToken
    /\ mcp_token' = NoToken
    /\ pending' = <<>>
    /\ have_mcp_server' = FALSE
    /\ check_result' = FALSE
    /\ sub_pending' = FALSE
    /\ calls' = NoCalls
    /\ start' = StartOf(NoToken, {}, FALSE)
    /\ UNCHANGED << token_file, hub_tokens, hub_integration, next_token_id >>

\* --------------------------------------------------- between two runs
Between ==
    UNCHANGED << bpc, sess, session_open, token_info, mcp_token, pending,
                 have_mcp_server, check_result, sub_pending, calls, next_token_id >>

\* Someone revokes a token at the hub, between two runs or while a run is
\* about to open a session (before the first block, or between the two); what
\* the run found at its start is kept less the revoked token.
HubRevokes(id) ==
    /\ bpc \in {"idle", "open"}
    /\ \E r \in hub_tokens : r.id = id
    /\ hub_tokens' = { r \in hub_tokens : r.id # id }
    /\ start' = [start EXCEPT !.hub_tokens = { r \in @ : r.id # id }]
    /\ Between /\ UNCHANGED << token_file, hub_integration >>

\* Someone removes the integration at the hub.
HubRemovesIntegration ==
    /\ bpc = "idle"
    /\ hub_integration
    /\ hub_integration' = FALSE
    /\ Between /\ UNCHANGED << token_file, hub_tokens, start >>

\* The cache directory is emptied, or another one is configured.
CacheCleared ==
    /\ bpc = "idle"
    /\ FileExists(token_file)
    /\ token_file' = NoToken
    /\ Between /\ UNCHANGED << hub_tokens, hub_integration, start >>

vars == << ctlVars, bootVars >>

\* The controller, with the bootstrap done and at rest.
Init ==
    /\ CtlInit
    /\ BootIdle
    /\ hub_tokens = {}
    /\ hub_integration = TRUE

\* Tool invocations one at a time.
Sequential == {"t1"}

Next ==
    \/ \E t \in Sequential : get_device_info(t) /\ UNCHANGED bootVars
    \/ \E t \in Sequential, ids \in DeviceIdLists, o \in BOOLEAN :
          switch_control(t, ids, o) /\ UNCHANGED bootVars
    \/ \E t \in Sequential, ids \in DeviceIdLists, b \in BrightnessValues :
          light_set(t, ids, b) /\ UNCHANGED bootVars
    \/ \E t \in Sequential, resp \in ContextResponses :
          ContextResponse(t, resp) /\ UNCHANGED bootVars
    \/ \E t \in Sequential, resp \in CommandResponses :
          CommandResponse(t, resp) /\ UNCHANGED bootVars
    \/ \E t \in Sequential : Deliver(t) /\ UNCHANGED bootVars

Spec == Init /\ [][Next]_vars

\* The bootstrap, run after run, before any tool is invoked.
InitBoot == CtlInit /\ BootInit

NextBoot ==
    \/ StartFromFile /\ UNCHANGED ctlVars
    \/ \E accepted \in BOOLEAN : StartWithLogin(accepted) /\ UNCHANGED ctlVars
    \/ \E connected \in BOOLEAN : OpenSession(connected) /\ UNCHANGED ctlVars
    \/ \E ok \in BOOLEAN : Enumerate(ok) /\ UNCHANGED ctlVars
    \/ \E ok \in BOOLEAN : DeleteToken(ok) /\ UNCHANGED ctlVars
    \/ \E ok \in BOOLEAN : CreateToken(ok) /\ UNCHANGED ctlVars
    \/ \E timely \in BOOLEAN, setup \in {"none", "installed", "failed", "raised"} :
          Subscribe(timely, setup) /\ UNCHANGED ctlVars
    \/ SubscribeFails /\ UNCHANGED ctlVars
    \/ DeliverEntries /\ UNCHANGED ctlVars
    \/ CloseSession /\ UNCHANGED ctlVars
    \/ RunEnds /\ UNCHANGED ctlVars
    \/ \E id \in 1..MaxTokenId : HubRevokes(id) /\ UNCHANGED ctlVars
    \/ HubRemovesIntegration /\ UNCHANGED ctlVars
    \/ CacheCleared /\ UNCHANGED ctlVars

SpecBoot == InitBoot /\ [][NextBoot]_vars

\* ---------------------------------------------- overlapping invocations
\* The server runs tool invocations as tasks of one event loop: a second
\* invocation may begin, and run, while the first is suspended in an await.
\* Two tasks, with fewer inputs than Spec has.
ConcTexts == { TextLampFan, TextPartial, TextScalars }

ConcContextResponses ==
    { Response(TRUE, "none", FALSE, FALSE, <<>>) }
    \cup { Response(FALSE, "text", TRUE, TRUE, <<PrefixLine>> \o r) : r \in ConcTexts }

ConcCommandResponses ==
    { Response(TRUE, "none", FALSE, FALSE, ""),
      Response(FALSE, "text", TRUE, TRUE, "done") }

ConcIdLists == { <<MD5("fan"), MD5("lamp")>> }

NextConc ==
    \/ \E t \in Tasks : get_device_info(t) /\ UNCHANGED bootVars
    \/ \E t \in Tasks, ids \in ConcIdLists :
          switch_control(t, ids, TRUE) /\ UNCHANGED bootVars
    \/ \E t \in Tasks, ids \in ConcIdLists :
          light_set(t, ids, 50) /\ UNCHANGED bootVars
    \/ \E t \in Tasks, resp \in ConcContextResponses :
          ContextResponse(t, resp) /\ UNCHANGED bootVars
    \/ \E t \in Tasks, resp \in ConcCommandResponses :
          CommandResponse(t, resp) /\ UNCHANGED bootVars
    \/ \E t \in Tasks : Deliver(t) /\ UNCHANGED bootVars

SpecConc == Init /\ [][NextConc]_vars

\* ============================================================ claims, Part I
IsControl(t) == op[t] \in {"switch_control", "light_set"}

\* The id an outcome answers: its device_id, or the id its message names.
AnsweredId(o) == IF o.device_id # NoId THEN o.device_id ELSE o.error_id

\* The hub call for a request ended in a fault (the helper raised).
Faulted(resp) == resp.raises \/ resp.content # "text" \/ ~resp.json_ok

\* The id matches a descriptor of the list the batch works on.
Matches(t, i) ==
    \E k \in DOMAIN local_context[t].items : local_context[t].items[k].id = device_ids[t][i]

IsNotFound(o, id) ==
    /\ ~o.success
    /\ o.error = "Device with id '%s' not found."
    /\ o.error_id = id

\* C1: every switch_control / light_set call that returns yields as many
\* outcomes as it was given ids, the i-th outcome answering the i-th id.
C1_SameLengthSameOrder ==
    \A t \in Tasks :
        (pc[t] = "returned" /\ IsControl(t)) =>
            /\ Len(results[t]) = Len(device_ids[t])
            /\ \A i \in DOMAIN results[t] : AnsweredId(results[t][i]) = device_ids[t][i]

\* A returned batch of two or more ids holding a not-found outcome and the
\* outcome of a hub call that raised.
C1_Witness ==
    \E t \in Tasks :
        /\ pc[t] = "returned" /\ IsControl(t) /\ Len(device_ids[t]) >= 2
        /\ \E i, j \in DOMAIN results[t] :
              /\ IsNotFound(results[t][i], device_ids[t][i])
              /\ results[t][j].device_id # NoId /\ ~results[t][j].success

\* C2: a hub command that raises gives that id the outcome {success: false,
\* device_id, error}; the tool does not raise because of it; and every id
\* that resolves to a device with names and areas has its hub command issued.
C2_FaultIsCapturedPerOutcome ==
    \A t \in Tasks :
        /\ \A k \in DOMAIN responses[t] :
              Faulted(responses[t][k]) =>
                 LET i == requests[t][k].index
                     o == results[t][i] IN
                 /\ pc[t] # "raised"
                 /\ ~o.success
                 /\ o.device_id = device_ids[t][i]
                 /\ o.error \notin {Absent, ""}
                 /\ o.result = NoJson
        /\ (pc[t] = "returned" /\ IsControl(t)) =>
              \A i \in DOMAIN device_ids[t] :
                 (\E k \in DOMAIN local_context[t].items :
                      LET d == local_context[t].items[k] IN
                      /\ d.id = device_ids[t][i]
                      /\ d.names # Absent /\ d.areas # Absent
                      /\ \A j \in 1..(k - 1) : local_context[t].items[j].id # d.id)
                 => Cardinality({k \in DOMAIN requests[t] : requests[t][k].index = i}) = 1

\* A returned batch in which a hub command raised and the command of a later
\* id was issued all the same.
C2_Witness ==
    \E t \in Tasks :
        /\ pc[t] = "returned"
        /\ \E k, m \in DOMAIN responses[t] :
              /\ Faulted(responses[t][k])
              /\ requests[t][m].index > requests[t][k].index

\* C3: an id that matches no descriptor of the cached list gets the
\* success=false not-found outcome at its position, no hub command is issued
\* for it, and the batch goes on to the ids after it.
C3_NotFoundIsAnOutcome ==
    \A t \in Tasks :
        /\ \A i \in DOMAIN results[t] :
              ~Matches(t, i) =>
                 /\ IsNotFound(results[t][i], device_ids[t][i])
                 /\ \A k \in DOMAIN requests[t] : requests[t][k].index # i
        /\ (pc[t] = "returned" /\ IsControl(t)) => Len(results[t]) = Len(device_ids[t])
        /\ (pc[t] = "returned" /\ IsControl(t) /\ Len(device_ids[t]) = 2
              /\ Matches(t, 1) /\ ~Matches(t, 2)
              /\ ~MissingAttributes(local_context[t].items[FindDevice(local_context[t].items,
                                                                      device_ids[t][1])]))
           => /\ Len(responses[t]) = 1
              /\ results[t][1].device_id = device_ids[t][1]
              /\ results[t][1].success = ~Faulted(responses[t][1])
              /\ IsNotFound(results[t][2], device_ids[t][2])

\* switch_control([id1, id2]) has returned, id1 resolved and was sent to the
\* hub, id2 was not found.
C3_Witness ==
    \E t \in Tasks :
        /\ pc[t] = "returned" /\ op[t] = "switch_control" /\ Len(device_ids[t]) = 2
        /\ Matches(t, 1) /\ ~Matches(t, 2)
        /\ Len(requests[t]) = 1 /\ requests[t][1].index = 1
        /\ IsNotFound(results[t][2], device_ids[t][2])

\* C4: an outcome says success=true only when the hub command succeeded: a
\* hub answer whose success field is false never gives a success=true outcome.
C4_SuccessMeansHubSuccess ==
    \A t \in Tasks :
        \A k \in DOMAIN responses[t] :
            (~Faulted(responses[t][k]) /\ ~responses[t][k].success) =>
                ~results[t][requests[t][k].index].success

\* C5: with a cache present, a get without force_refresh that fetches text
\* whose hash is the cached hash returns the cached list itself and leaves the
\* list object, its items and the hash as they were.
C5_SameHashKeepsCache ==
    \A t \in Tasks :
        LET g == get_call[t] IN
        (/\ g.done /\ g.fetched /\ ~g.force_refresh
         /\ ~g.before.isNone
         /\ MD5(g.raw) = g.before_hash) =>
            /\ ~g.raised
            /\ g.after = g.before
            /\ g.after_hash = g.before_hash
            /\ local_context[t] = g.before

\* A get without force_refresh met a cache whose hash is the fetched text's.
C5_Witness ==
    \E t \in Tasks :
        LET g == get_call[t] IN
        /\ g.done /\ g.fetched /\ ~g.force_refresh /\ ~g.before.isNone
        /\ MD5(g.raw) = g.before_hash
        /\ g.before.items # <<>>

\* The refresh condition of a get call, from what was observed of it.
MustRefresh(g) == g.force_refresh \/ g.before.isNone \/ MD5(g.raw) # g.before_hash

\* C6: when a get must refresh (force_refresh, no cache, or another hash) and
\* returns, the cache is a new list: its hash is the hash of the fetched text,
\* its devices are the parsed records in order, each with id = hash(names)
\* (names taken as "" when the record has none), and it is what get returns.
C6_RefreshReplacesCache ==
    \A t \in Tasks :
        LET g == get_call[t]
            parsed == yaml_safe_load(g.raw) IN
        (g.done /\ g.fetched /\ MustRefresh(g) /\ parsed.kind = "list" /\ ~g.raised) =>
            /\ g.after_hash = MD5(g.raw)
            /\ ~g.after.isNone
            /\ g.before.isNone \/ g.after.obj # g.before.obj
            /\ Len(g.after.items) = Len(parsed.items)
            /\ \A i \in DOMAIN parsed.items :
                  /\ g.after.items[i].names = parsed.items[i].names
                  /\ g.after.items[i].areas = parsed.items[i].areas
                  /\ g.after.items[i].id =
                        MD5(IF parsed.items[i].names = Absent THEN ""
                            ELSE parsed.items[i].names)
            /\ local_context[t] = g.after

\* A get without force_refresh replaced a cache because the text had changed.
C6_Witness ==
    \E t \in Tasks :
        LET g == get_call[t] IN
        /\ g.done /\ g.fetched /\ ~g.force_refresh /\ ~g.raised
        /\ ~g.before.isNone /\ g.before.items # <<>>
        /\ MD5(g.raw) # g.before_hash
        /\ Len(g.after.items) = 2

\* C7: a get call that fails leaves the cache as it found it: the same list
\* and the same hash.
C7_FailedGetKeepsCache ==
    \A t \in Tasks :
        LET g == get_call[t] IN
        (g.done /\ g.raised) =>
            /\ g.after = g.before
            /\ g.after_hash = g.before_hash

\* A get failed on text it fetched while a non-empty cache was present.
C7_Witness ==
    \E t \in Tasks :
        LET g == get_call[t] IN
        /\ g.done /\ g.raised /\ g.fetched
        /\ ~g.before.isNone /\ g.before.items # <<>>
        /\ MD5(g.raw) # g.before_hash

\* C15: every outcome of a switch_control / light_set call, the not-found and
\* the missing-attributes outcomes included, carries the device_id of the id
\* it answers, with success and a result (success) or an error (failure).
C15_OutcomeCarriesDeviceId ==
    \A t \in Tasks :
        \A i \in DOMAIN results[t] :
            LET o == results[t][i] IN
            /\ o.device_id = device_ids[t][i]
            /\ o.success \in BOOLEAN
            /\ IF o.success THEN o.result.present /\ o.error = Absent
                            ELSE o.error # Absent /\ ~o.result.present

\* C16: every request light_set issues is a HassLightSet request with the
\* device's name and area; it holds a brightness entry exactly when the caller
\* gave a brightness, and then the entry is that brightness as text, "0" for 0.
C16_BrightnessSentIffGiven ==
    \A t \in Tasks :
        op[t] = "light_set" =>
            \A k \in DOMAIN requests[t] :
                LET q == requests[t][k].request IN
                /\ q.tool = "HassLightSet"
                /\ q.name # Absent /\ q.area # Absent
                /\ (q.brightness # Absent) <=> (brightness[t] # NoBrightness)
                /\ brightness[t] = 0 => q.brightness = "0"
                /\ brightness[t] = 50 => q.brightness = "50"

\* light_set was called with brightness 0 and its request holds "0".
C16_Witness ==
    \E t \in Tasks :
        /\ op[t] = "light_set" /\ brightness[t] = 0
        /\ \E k \in DOMAIN requests[t] : requests[t][k].request.brightness = "0"

\* C18: with get calls of several tasks interleaved in any way, the cache is
\* absent, or its hash is the hash of a text that parses to a list and its
\* list holds that text's records in order, each with its id assigned.
C18_CacheAbsentOrCoherent ==
    \/ context.isNone /\ context_hash = NoHash
    \/ /\ ~context.isNone
       /\ context_hash[1] = "md5"
       /\ LET parsed == yaml_safe_load(context_hash[2]) IN
          /\ parsed.kind = "list"
          /\ Len(context.items) = Len(parsed.items)
          /\ \A i \in DOMAIN parsed.items :
                /\ context.items[i].names = parsed.items[i].names
                /\ context.items[i].areas = parsed.items[i].areas
                /\ context.items[i].id # NoId
                /\ context.items[i].id =
                      MD5(IF parsed.items[i].names = Absent THEN ""
                          ELSE parsed.items[i].names)

\* Two get calls overlapped: the text of t arrived and replaced the cache
\* while u was suspended in its fetch, then the other text arrived for u and
\* replaced the cache again.
C18_Witness ==
    \E t, u \in Tasks :
        /\ t # u
        /\ get_call[t].done /\ get_call[t].concurrent /\ ~get_call[t].raised
        /\ get_call[u].done /\ ~get_call[u].raised
        /\ get_call[t].raw # get_call[u].raw
        /\ ~get_call[t].after.isNone
        /\ get_call[u].before = get_call[t].after
        /\ get_call[u].after.obj # get_call[t].after.obj
        /\ context = get_call[u].after

\* C19: no two tasks are inside a hub call on the same client at one time.
C19_NoClientSharedByTwoCalls ==
    \A t, u \in Tasks :
        (t # u /\ InHubCall(t) /\ InHubCall(u)) => ClientOf(t) # ClientOf(u)

IsMissingAttributes(o, id) ==
    /\ ~o.success
    /\ o.error = "Device '%s' is missing 'names' or 'areas' information."
    /\ o.error_id = id

\* C20: an id that resolves to a descriptor gets the missing-attributes
\* outcome exactly when the descriptor has neither names nor areas; with at
\* least one of the two its hub command is issued.
C20_MissingOnlyWhenBothLack ==
    \A t \in Tasks :
        \A i \in DOMAIN results[t] :
            Matches(t, i) =>
                LET d == local_context[t].items[FindDevice(local_context[t].items,
                                                           device_ids[t][i])] IN
                /\ IsMissingAttributes(results[t][i], device_ids[t][i])
                      <=> (d.names = Absent /\ d.areas = Absent)
                /\ (d.names # Absent \/ d.areas # Absent)
                      => \E k \in DOMAIN requests[t] : requests[t][k].index = i

\* C21: every cached descriptor is addressable by its own id: the ids of
\* distinct descriptors of a list differ, and the hub command issued for an id
\* carries the names and areas of every descriptor that has this id.
C21_DescriptorAddressableById ==
    /\ \A i, j \in DOMAIN context.items :
          i # j => context.items[i].id # context.items[j].id
    /\ \A t \in Tasks :
          \A k \in DOMAIN requests[t] :
             \A j \in DOMAIN local_context[t].items :
                LET d == local_context[t].items[j] IN
                d.id = device_ids[t][requests[t][k].index] =>
                   /\ requests[t][k].request.name = d.names
                   /\ requests[t][k].request.area = d.areas

\* C22: every id of a switch_control / light_set batch is resolved against
\* the list its get call returned at the start, whatever the cache has become
\* since: not-found, missing-attributes and the request's names and areas all
\* follow that list; and a list object some task still holds is not changed:
\* two references to one list object see the same items.
C22_BatchResolvesAgainstItsList ==
    /\ \A t \in Tasks :
          (IsControl(t) /\ get_call[t].done /\ ~get_call[t].raised) =>
             LET items == get_call[t].after.items IN
             /\ local_context[t] = get_call[t].after
             /\ \A i \in DOMAIN results[t] :
                   LET j == FindDevice(items, device_ids[t][i]) IN
                   /\ IsNotFound(results[t][i], device_ids[t][i]) <=> (j = 0)
                   /\ IsMissingAttributes(results[t][i], device_ids[t][i])
                         <=> (j # 0 /\ MissingAttributes(items[j]))
             /\ \A k \in DOMAIN requests[t] :
                   LET j == FindDevice(items, device_ids[t][requests[t][k].index]) IN
                   /\ j # 0
                   /\ requests[t][k].request.name = items[j].names
                   /\ requests[t][k].request.area = items[j].areas
    /\ \A t \in Tasks :
          ~local_context[t].isNone =>
             /\ (~context.isNone /\ context.obj = local_context[t].obj)
                   => context.items = local_context[t].items
             /\ \A u \in Tasks :
                   (~local_context[u].isNone /\ local_context[u].obj = local_context[t].obj)
                      => local_context[u].items = local_context[t].items

\* While the batch of t waited for the hub command of its first id, the get
\* of u replaced the cache by a list without the device of the second id;
\* the batch has returned, its second id resolved and sent to the hub.
C22_Witness ==
    \E t, u \in Tasks :
        /\ t # u
        /\ pc[t] = "returned" /\ IsControl(t) /\ Len(results[t]) = 2
        /\ get_call[u].done /\ ~get_call[u].raised
        /\ <<t, 1>> \in get_call[u].batches
        /\ get_call[u].before = local_context[t]
        /\ get_call[u].after.obj # local_context[t].obj
        /\ context = get_call[u].after
        /\ results[t][2].success
        /\ \A j \in DOMAIN context.items : context.items[j].id # device_ids[t][2]

\* =========================================================== claims, Part II
\* C8: a bootstrap run opens at most one hub session, exactly one when it
\* returns a token, and has closed every session it opened when it ends.
C8_OneSessionPerRun ==
    /\ calls.open <= 1
    /\ bpc = "returned" => calls.open = 1
    /\ bpc \in {"returned", "raised"} => (~session_open /\ calls.close = calls.open)

\* C9: a run that began without token.txt and returns has logged in once,
\* created one scoped token, and called setup_integration not at all when the
\* subscription reported the integration and once when it did not.
C9_FreshRunCallCounts ==
    (bpc = "returned" /\ ~FileExists(start.token_file)) =>
        /\ calls.auth = 1
        /\ calls.create = 1
        /\ calls.install = IF start.first_check = "present" THEN 0 ELSE 1

\* C10: a run that finds the scoped token cached makes no token-management
\* call, leaves the hub's refresh tokens and token.txt as they were, and
\* returns the cached value.
C10_CachedTokenIsReused ==
    (FileExists(start.token_file) /\ calls.open >= 1) =>
        /\ calls.enumerate = 0 /\ calls.delete = 0 /\ calls.create = 0
        /\ hub_tokens = start.hub_tokens
        /\ token_file = start.token_file
        /\ bpc = "returned" => mcp_token = start.token_file

\* A run that began with token.txt present has returned its content, while
\* the hub holds a long-lived "mcp" token.
C10_Witness ==
    /\ bpc = "returned"
    /\ FileExists(start.token_file)
    /\ mcp_token = start.token_file
    /\ \E r \in hub_tokens : r.type = LONG_LIVED /\ r.client_name = MCP_NAME

\* C11: an authentication fault while a session is opened ends the run at
\* once, with the fault raised, no session open, no second login, and
\* token.txt (the credential the next run would start from) removed.
C11_AuthFaultInvalidatesBase ==
    calls.auth_error >= 1 =>
        /\ bpc = "raised"
        /\ ~session_open
        /\ calls.auth_error = 1 /\ calls.auth <= 1
        /\ ~FileExists(token_file)

\* A long-lived refresh token whose client_name is "mcp".
IsMcpToken(r) == r.type = LONG_LIVED /\ r.client_name = MCP_NAME

\* C12: from the moment a run asks the hub to create the scoped token, the
\* hub holds no long-lived "mcp" token it held before, so at most one such
\* token, the created one, exists afterwards; and a run never deletes a
\* record of another type or another client_name.
C12_OnlyOldMcpTokensDeleted ==
    /\ (bpc = "create" \/ calls.create >= 1) =>
          /\ \A r \in hub_tokens : IsMcpToken(r) => (r \notin start.hub_tokens /\ r.id = token_file)
          /\ Cardinality({ r \in hub_tokens : IsMcpToken(r) }) <= 1
    /\ \A r \in start.hub_tokens : ~IsMcpToken(r) => r \in hub_tokens

\* A run that found two long-lived "mcp" tokens, a long-lived token of another
\* client and a login token named "mcp" has created its scoped token.
C12_Witness ==
    /\ calls.create = 1 /\ calls.delete = 2
    /\ mcp_token # NoToken
    /\ \E r \in hub_tokens : IsMcpToken(r) /\ r.id = mcp_token
    /\ \E r \in start.hub_tokens : r.type = LONG_LIVED /\ r.client_name # MCP_NAME
    /\ \E r \in start.hub_tokens : r.type # LONG_LIVED /\ r.client_name = MCP_NAME

\* C13: token.txt is written only with a token the hub has just created (the
\* same step files the long-lived "mcp" record of that id), and a run that
\* began without token.txt and ended in a fault of the enumeration, a
\* deletion or the creation leaves no token.txt.
C13_ScopedWrittenAfterCreation ==
    /\ []((bpc = "raised" /\ calls.enumerate >= 1 /\ calls.subscribe = 0)
              => ~FileExists(token_file))
    /\ [][(token_file' # token_file /\ FileExists(token_file'))
              => /\ bpc = "create"
                 /\ RefreshToken(token_file', LONG_LIVED, MCP_NAME) \in hub_tokens' \ hub_tokens]_vars

\* After two deletions the creation call raised: the run ended without token.txt.
C13_Witness ==
    /\ bpc = "raised"
    /\ calls.delete = 2 /\ calls.create = 1 /\ calls.subscribe = 0
    /\ ~FileExists(token_file)

\* C14: the credential a run starts from and the scoped token are two records:
\* the bearer loaded as base credential is never a scoped (long-lived "mcp")
\* token, the scoped token a run loads is never a login token, and the
\* invalidation of the base credential after an authentication fault leaves
\* the stored scoped token as the run found it.
C14_TwoSeparateRecords ==
    /\ token_info # NoToken =>
          ~\E r \in hub_tokens : r.id = token_info /\ IsMcpToken(r)
    /\ mcp_token # NoToken =>
          ~\E r \in hub_tokens : r.id = mcp_token /\ r.type = "normal"
    /\ (calls.auth_error >= 1 /\ FileExists(start.token_file)) =>
          token_file = start.token_file

\* C17: when the hub holds the integration and the subscription has delivered
\* its entry to the callback while the session is open, be it after
\* subscribe_config_entries returned, the run calls setup_integration not once.
C17_DeliveredEntryMeansNoSetup ==
    (start.hub_integration /\ session_open /\ have_mcp_server) => calls.install = 0

====
